---- MODULE Spec2Model ----
(***************************************************************************)
(* A model of trurl.c (jacobmealey/urler): the command-line loop of main,  *)
(* the --iterate expansion of the option chain, the per-URL pipeline       *)
(* singleurl with the query-pair store, and the --get format interpreter.  *)
(*                                                                         *)
(* C strings are sequences of one-character strings.  The URL engine       *)
(* (libcurl's curl_url_* functions) is outside the repository: a URL given *)
(* to the program is a record holding the engine's verdict on it and the   *)
(* components the engine would split it into.                              *)
(***************************************************************************)
EXTENDS Integers, Sequences, FiniteSets, TLC

VARIABLES
  pc,        \* position of the process in main / singleurl
  nargs,     \* command-line words consumed so far
  chain,     \* the option chain: chain[1] is main's o, chain[k+1] is chain[k].iterate
  url_list,  \* o.url_list
  url,       \* o.url: NULL, or the lines the opened file (or stdin) will yield
  node,      \* main: index of the next URL (argument or file line) to take
  opt,       \* main: index in chain of the variant being processed
  cur,       \* singleurl: its url argument (NOURL when the pointer is NULL)
  uh,        \* singleurl: the engine handle
  qpairs,    \* qpairs[0 .. nqpairs-1]; nqpairs is Len(qpairs)
  out,       \* everything written to stdout
  err,       \* the warnings and errors written to stderr, one record per message
  exit_code, \* the status the process exited with (0 while running)
  calls,     \* history: the (url, variant) arguments of every singleurl call, in order
  iters,     \* history: the argument of every --iterate that iterate() accepted
  offered    \* history: every pair handed to addqpair during the current pass

vars == <<pc, nargs, chain, url_list, url, node, opt, cur, uh, qpairs, out, err,
          exit_code, calls, iters, offered>>

-----------------------------------------------------------------------------
(* C strings *)

NUL == "NUL"            \* the terminating zero byte
NULL == <<"NULL">>      \* a null char pointer (distinct from the empty string <<>>)

UpperCase == <<"A","B","C","D","E","F","G","H","I","J","K","L","M",
               "N","O","P","Q","R","S","T","U","V","W","X","Y","Z">>
LowerCase == <<"a","b","c","d","e","f","g","h","i","j","k","l","m",
               "n","o","p","q","r","s","t","u","v","w","x","y","z">>

\* tolower() in the C locale
Lower(c) ==
  IF \E i \in 1..26 : UpperCase[i] = c
  THEN LowerCase[CHOOSE i \in 1..26 : UpperCase[i] = c]
  ELSE c

\* s[i] with C's 0-based offsets; the terminator at and past the end
At(s, i) == IF i >= 0 /\ i < Len(s) THEN s[i + 1] ELSE NUL

\* the string that starts at offset i of s
From(s, i) == SubSeq(s, i + 1, Len(s))

\* strchr(s + from, c): the offset in s of the first c at or after from, -1 for NULL
strchr(s, from, c) ==
  IF \E i \in from..(Len(s) - 1) : At(s, i) = c
  THEN CHOOSE i \in from..(Len(s) - 1) :
         At(s, i) = c /\ \A j \in from..(i - 1) : At(s, j) # c
  ELSE -1

\* strncmp(a + pa, b + pb, n) == 0
strncmp0(a, pa, b, pb, n) ==
  \A i \in 0..(n - 1) :
    (\A j \in 0..(i - 1) : At(a, pa + j) # NUL) => At(a, pa + i) = At(b, pb + i)

\* strncasecmp(a + pa, b + pb, n) == 0
strncasecmp0(a, pa, b, pb, n) ==
  \A i \in 0..(n - 1) :
    (\A j \in 0..(i - 1) : At(a, pa + j) # NUL)
      => Lower(At(a, pa + i)) = Lower(At(b, pb + i))

\* a char buffer[] is a sequence of bytes, NUL where nothing was written
BufPut(buf, i, c) ==
  [k \in 1..(IF Len(buf) > i + 1 THEN Len(buf) ELSE i + 1) |->
     IF k = i + 1 THEN c ELSE IF k <= Len(buf) THEN buf[k] ELSE NUL]

\* strncpy(buf + dst, src + from, n): n bytes, zero padded past the end of src
strncpy(buf, dst, src, from, n) ==
  [k \in 1..(IF Len(buf) > dst + n THEN Len(buf) ELSE dst + n) |->
     IF k > dst /\ k <= dst + n THEN At(src, from + (k - dst - 1))
     ELSE IF k <= Len(buf) THEN buf[k] ELSE NUL]

\* the C string a buffer holds: its bytes before the first NUL
CStr(buf) ==
  IF \E k \in 1..Len(buf) : buf[k] = NUL
  THEN SubSeq(buf, 1, (CHOOSE k \in 1..Len(buf) :
                         buf[k] = NUL /\ \A j \in 1..(k - 1) : buf[j] # NUL) - 1)
  ELSE buf

-----------------------------------------------------------------------------
(* The component table and the error codes *)

NUM_COMPONENTS == 11

variables ==
  << [name |-> <<"u","r","l">>,                     part |-> "url"],
     [name |-> <<"s","c","h","e","m","e">>,         part |-> "scheme"],
     [name |-> <<"u","s","e","r">>,                 part |-> "user"],
     [name |-> <<"p","a","s","s","w","o","r","d">>, part |-> "password"],
     [name |-> <<"o","p","t","i","o","n","s">>,     part |-> "options"],
     [name |-> <<"h","o","s","t">>,                 part |-> "host"],
     [name |-> <<"p","o","r","t">>,                 part |-> "port"],
     [name |-> <<"p","a","t","h">>,                 part |-> "path"],
     [name |-> <<"q","u","e","r","y">>,             part |-> "query"],
     [name |-> <<"f","r","a","g","m","e","n","t">>, part |-> "fragment"],
     [name |-> <<"z","o","n","e","i","d">>,         part |-> "zoneid"] >>

Parts == {"scheme", "user", "password", "options", "host", "port", "path",
          "query", "fragment", "zoneid"}

ERROR_FILE == 1
ERROR_APPEND == 2
ERROR_ARG == 3
ERROR_FLAG == 4
ERROR_SET == 5
ERROR_MEM == 6
ERROR_URL == 7
ERROR_TRIM == 8
ERROR_BADURL == 9
ERROR_ITER == 10

MAX_QPAIRS == 1000

-----------------------------------------------------------------------------
(* The URL engine (libcurl's URL API), seen from its callers *)

\* a URL text is the engine's verdict on it and the components it parses into;
\* NOURL stands for a null pointer where the program passes a URL text
NoParts == [x \in Parts |-> NULL]
NOURL == [verdict |-> "null", parts |-> NoParts]

\* curl_url()
curl_url == NoParts

\* whether curl_url_set(uh, CURLUPART_URL, u, flags) accepts the text u
ParseOk(u, allow_space) ==
  u.verdict = "ok" \/ (u.verdict = "space" /\ allow_space)

\* curl_url_set(uh, CURLUPART_URL, u, flags): a rejected text leaves the handle alone
curl_url_set_url(h, u, allow_space) ==
  IF ParseOk(u, allow_space) THEN [rc |-> "CURLUE_OK", uh |-> u.parts]
  ELSE [rc |-> "CURLUE_MALFORMED_INPUT", uh |-> h]

\* curl_url_set(uh, part, value, flags) for a single component; NULL clears it
curl_url_set(h, part, value) == [h EXCEPT ![part] = value]

ReservedCode ==
  [c \in {" ", "&", "=", "*", "/", "{", "}", ":"} |->
     CASE c = " " -> <<"%","2","0">> [] c = "&" -> <<"%","2","6">>
       [] c = "=" -> <<"%","3","D">> [] c = "*" -> <<"%","2","A">>
       [] c = "/" -> <<"%","2","F">> [] c = "{" -> <<"%","7","B">>
       [] c = "}" -> <<"%","7","D">> [] c = ":" -> <<"%","3","A">>]

\* curl_easy_escape(NULL, s, n): percent-encodes every byte that is not unreserved
RECURSIVE curl_easy_escape(_)
curl_easy_escape(s) ==
  IF s = <<>> THEN <<>>
  ELSE (IF s[1] \in DOMAIN ReservedCode THEN ReservedCode[s[1]] ELSE <<s[1]>>)
       \o curl_easy_escape(Tail(s))

\* the reverse, done by curl_url_get under CURLU_URLDECODE
RECURSIVE UrlDecode(_)
UrlDecode(s) ==
  IF s = <<>> THEN <<>>
  ELSE IF s[1] = "%" /\ Len(s) >= 3
            /\ \E c \in DOMAIN ReservedCode : ReservedCode[c] = SubSeq(s, 1, 3)
       THEN <<CHOOSE c \in DOMAIN ReservedCode : ReservedCode[c] = SubSeq(s, 1, 3)>>
            \o UrlDecode(SubSeq(s, 4, Len(s)))
       ELSE <<s[1]>> \o UrlDecode(Tail(s))

DefaultPort(scheme) ==
  IF scheme = <<"h","t","t","p">> THEN <<"8","0">>
  ELSE IF scheme = <<"h","t","t","p","s">> THEN <<"4","4","3">>
  ELSE NULL

\* the full URL the engine assembles from a handle
FullUrl(h, port) ==
  h.scheme \o <<":","/","/">>
  \o (IF h.user # NULL
      THEN h.user \o (IF h.password # NULL THEN <<":">> \o h.password ELSE <<>>)
           \o <<"@">>
      ELSE <<>>)
  \o h.host
  \o (IF port # NULL THEN <<":">> \o port ELSE <<>>)
  \o (IF h.path # NULL THEN h.path ELSE <<"/">>)
  \o (IF h.query # NULL THEN <<"?">> \o h.query ELSE <<>>)
  \o (IF h.fragment # NULL THEN <<"#">> \o h.fragment ELSE <<>>)

\* curl_url_get(uh, part, &s, flags); rc is CURLUE_OK or one of the CURLUE_NO_* codes
curl_url_get(h, part, default_port, no_default_port, urldecode) ==
  LET dport == DefaultPort(h.scheme)
      port1 == IF h.port # NULL THEN h.port
               ELSE IF default_port THEN dport ELSE NULL
      port2 == IF no_default_port /\ port1 = dport THEN NULL ELSE port1
      dec(s) == IF urldecode THEN UrlDecode(s) ELSE s
      yes(s) == [rc |-> "CURLUE_OK", s |-> s]
      no == [rc |-> "CURLUE_NO", s |-> NULL]
  IN CASE part = "url" ->
            IF h.scheme = NULL \/ h.host = NULL THEN no ELSE yes(FullUrl(h, port2))
       [] part = "port" -> IF port2 = NULL THEN no ELSE yes(port2)
       [] part = "path" -> yes(IF h.path = NULL THEN <<"/">> ELSE dec(h.path))
       [] OTHER -> IF h[part] = NULL THEN no ELSE yes(dec(h[part]))

-----------------------------------------------------------------------------
(* struct option and the functions that fill it from the command line *)

\* memset(&o, 0, sizeof(o)); url_list and url (the FILE) are read from main's o
\* only and are the variables url_list and url
option0 ==
  [ append_path |-> <<>>, append_query |-> <<>>, set_list |-> <<>>,
    trim_list |-> <<>>, redirect |-> NOURL, format |-> NULL, jsonout |-> FALSE,
    verify |-> FALSE, accept_space |-> FALSE, urls |-> 0 ]

\* the result of a command-line handler: the chain, and the exit code of errorf
\* (0 when the handler returned)
Ret(ch) == [chain |-> ch, exit |-> 0, msg |-> ""]
Errorf(ch, code, msg) == [chain |-> ch, exit |-> code, msg |-> msg]

\* a list pointer copied by memcpy shares the list it pointed to when it was
\* copied: an element appended to main's list shows in every variant whose
\* pointer was not NULL, and in no other
SharedAppend(ch, field, s) ==
  [k \in 1..Len(ch) |->
     IF k = 1 \/ ch[k][field] # <<>>
     THEN [ch[k] EXCEPT ![field] = Append(ch[k][field], s)]
     ELSE ch[k]]

pathadd(ch, path) == SharedAppend(ch, "append_path", curl_easy_escape(path))

queryadd(ch, query) ==
  LET eq == strchr(query, 0, "=")
      urle == IF eq >= 0
              THEN curl_easy_escape(SubSeq(query, 1, eq)) \o <<"=">>
                   \o curl_easy_escape(From(query, eq + 1))
              ELSE curl_easy_escape(query)
  IN SharedAppend(ch, "append_query", urle)

appendadd(ch, arg) ==
  IF strncasecmp0(<<"p","a","t","h","=">>, 0, arg, 0, 5)
  THEN Ret(pathadd(ch, From(arg, 5)))
  ELSE IF strncasecmp0(<<"q","u","e","r","y","=">>, 0, arg, 0, 6)
  THEN Ret(queryadd(ch, From(arg, 6)))
  ELSE Errorf(ch, ERROR_APPEND, "--append unsupported component")

\* setadd(o, set) with o == chain[k]: appends to o and to every variant after it
setadd(ch, k, set) ==
  [j \in 1..Len(ch) |->
     IF j >= k THEN [ch[j] EXCEPT !.set_list = Append(@, set)] ELSE ch[j]]

trimadd(ch, trim) == SharedAppend(ch, "trim_list", trim)

\* addoptiter(o): a memcpy of the last variant, linked after it
addoptiter(ch) == Append(ch, ch[Len(ch)])

\* slist_clone(list): a copy by value
slist_clone(list) == list

\* iterate(): the token loop, from "while(*ptr != '\0')" on.  ptr and argp (the
\* code's _arg) are offsets in arg; new_opt is the index in the chain of the
\* variant the next token is added to
RECURSIVE iterate_loop(_, _, _, _, _, _, _)
iterate_loop(ch, arg, buffer, offset, ptr, argp, new_opt) ==
  IF At(arg, ptr) = NUL THEN ch
  ELSE
    LET space == At(arg, ptr) = " "
        last == ~space /\ At(arg, ptr + 1) = NUL
        set == space \/ last
        buffer1 ==
          IF space
          THEN BufPut(strncpy(buffer, offset - 1, arg, argp, ptr - argp),
                      offset + ptr - argp - 1, NUL)
          ELSE IF last
          THEN BufPut(strncpy(buffer, offset - 1, arg, argp, ptr - argp + 1),
                      offset + ptr - argp, NUL)
          ELSE buffer
        argp1 == IF space THEN ptr + 1 ELSE argp
        ch1 == IF set THEN setadd(ch, new_opt, CStr(buffer1)) ELSE ch
        more == set /\ At(arg, ptr + 1) # NUL
        ch2 == IF more
               THEN LET added == addoptiter(ch1)
                    IN [added EXCEPT ![Len(added)].set_list =
                                        slist_clone(ch1[1].set_list)]
               ELSE ch1
        new_opt1 == IF more THEN Len(ch2) ELSE new_opt
    IN iterate_loop(ch2, arg, buffer1, offset, ptr + 1, argp1, new_opt1)

\* iterate(op, arg)
iterate(ch, arg) ==
  LET arg_str_len == Len(arg)
      pre == IF strncmp0(<<"h","o","s","t","s","=">>, 0, arg, 0, 5)
             THEN [buffer |-> <<"h","o","s","t","=",NUL>>, offset |-> 5]
             ELSE IF strncmp0(<<"p","o","r","t","s","=">>, 0, arg, 0, 6)
             THEN [buffer |-> <<"p","o","r","t","=",NUL>>, offset |-> 5]
             ELSE IF strncmp0(<<"s","c","h","e","m","e","s","=">>, 0, arg, 0, 8)
             THEN [buffer |-> <<"s","c","h","e","m","e","=",NUL>>, offset |-> 7]
             ELSE [buffer |-> <<>>, offset |-> 0]
  IN IF pre.offset = 0 \/ pre.offset + 1 >= arg_str_len
     THEN Errorf(ch, ERROR_ITER, "Missing arguments for iterator")
     ELSE Ret(iterate_loop(ch, arg, pre.buffer, pre.offset + 1,
                           pre.offset + 1, pre.offset + 1, 1))

\* getarg(op, flag, arg) for the flags that change the option chain; --url and
\* --url-file are the actions UrlArg and UrlFile, the short flags behave as the
\* long ones, and main turns a nonzero return into "unknown option"
getarg(ch, flag, arg) ==
  CASE flag = "--append" -> appendadd(ch, arg)
    [] flag = "--set" -> Ret(setadd(ch, 1, arg))
    [] flag = "--redirect" ->
         IF ch[1].redirect # NOURL
         THEN Errorf(ch, ERROR_FLAG, "only one --redirect is supported")
         ELSE Ret([ch EXCEPT ![1].redirect = arg])
    [] flag = "--trim" -> Ret(trimadd(ch, arg))
    [] flag = "--get" ->
         IF ch[1].format # NULL
         THEN Errorf(ch, ERROR_FLAG, "only one --get is supported")
         ELSE Ret([ch EXCEPT ![1].format = arg])
    [] flag = "--json" -> Ret([ch EXCEPT ![1].jsonout = TRUE])
    [] flag = "--iterate" ->
         IF Len(ch) > 1
         THEN Errorf(ch, ERROR_ITER, "only one --iterate is supported")
         ELSE iterate(ch, arg)
    [] flag = "--verify" -> Ret([ch EXCEPT ![1].verify = TRUE])
    [] flag = "--accept-space" -> Ret([ch EXCEPT ![1].accept_space = TRUE])
    [] OTHER -> Errorf(ch, ERROR_FLAG, "unknown option")

-----------------------------------------------------------------------------
(* singleurl's helpers: set, get, json, trim and the query-pair store *)

\* the index in variables[] of the component named by the first vlen bytes at
\* offset from of s (the for loop over variables[] with its two tests), 0 if none
FindVar(s, from, vlen) ==
  LET hit(i) == Len(variables[i].name) = vlen
                /\ strncasecmp0(s, from, variables[i].name, 0, vlen)
  IN IF \E i \in 1..NUM_COMPONENTS : hit(i)
     THEN CHOOSE i \in 1..NUM_COMPONENTS : hit(i) /\ \A j \in 1..(i - 1) : ~hit(j)
     ELSE 0

\* what the engine stores for a value set under CURLU_URLENCODE
EngineEncode(part, value) ==
  IF part = "path" \/ part = "query" \/ value = NULL THEN value
  ELSE curl_easy_escape(value)

\* set(): the loop over o->set_list.  o_null is the code's "!o"; varset is the
\* set of indexes i with varset[i] true
RECURSIVE set_loop(_, _, _, _)
set_loop(h, o_null, list, varset) ==
  IF list = <<>> THEN [uh |-> h, exit |-> 0, msg |-> ""]
  ELSE
    LET set == list[1]
        ptr == strchr(set, 0, "=")
    IN IF ptr > 0
       THEN LET urlencode == At(set, ptr - 1) # ":"
                vlen == IF urlencode THEN ptr ELSE ptr - 1
                i == FindVar(set, 0, vlen)
                value == IF At(set, ptr + 1) # NUL THEN From(set, ptr + 1) ELSE NULL
            IN IF i = 0
               THEN [uh |-> h, exit |-> ERROR_SET, msg |-> "Set unknown component"]
               ELSE IF i \in varset /\ o_null
               THEN [uh |-> h, exit |-> ERROR_SET,
                     msg |-> "A component can only be set once per URL"]
               ELSE set_loop(
                      IF variables[i].part = "url" THEN h
                      ELSE curl_url_set(h, variables[i].part,
                                        IF urlencode
                                        THEN EngineEncode(variables[i].part, value)
                                        ELSE value),
                      o_null, Tail(list), varset \cup {i})
       ELSE [uh |-> h, exit |-> ERROR_SET, msg |-> "invalid --set syntax"]

\* set(uh, o), o being chain[k]; index 0 is the null pointer
set(h, ch, k) == set_loop(h, k = 0, ch[k].set_list, {})

\* the path-append loop of singleurl
RECURSIVE append_path_loop(_, _)
append_path_loop(h, list) ==
  IF list = <<>> THEN h
  ELSE LET opath == curl_url_get(h, "path", FALSE, FALSE, FALSE).s
           olen == Len(opath)
           npath == opath \o (IF At(opath, olen - 1) = "/" THEN <<>> ELSE <<"/">>)
                    \o list[1]
       IN append_path_loop(curl_url_set(h, "path", npath), Tail(list))

\* get(): the loop over the format string, ptr an offset in it; the value is the
\* text written to stdout
RECURSIVE get_loop(_, _, _)
get_loop(format, ptr, h) ==
  IF At(format, ptr) = NUL THEN <<>>
  ELSE IF At(format, ptr) = "{"
  THEN IF At(format, ptr + 1) = "{"
       THEN <<"{">> \o get_loop(format, ptr + 2, h)
       ELSE LET end == strchr(format, ptr, "}")
            IN IF end < 0
               THEN get_loop(format, ptr + 1, h)
               ELSE LET urldecode == At(format, ptr + 1) # ":"
                        name == IF urldecode THEN ptr + 1 ELSE ptr + 2
                        vlen == end - name
                        i == FindVar(format, name, vlen)
                        got == curl_url_get(h, variables[i].part, TRUE, TRUE, urldecode)
                    IN (IF i # 0 /\ got.rc = "CURLUE_OK" THEN got.s ELSE <<>>)
                       \o get_loop(format, end + 1, h)
  ELSE IF At(format, ptr) = "\\" /\ At(format, ptr + 1) # NUL
  THEN (CASE At(format, ptr + 1) = "r" -> <<"\r">>
          [] At(format, ptr + 1) = "n" -> <<"\n">>
          [] At(format, ptr + 1) = "t" -> <<"\t">>
          [] OTHER -> <<At(format, ptr), At(format, ptr + 1)>>)
       \o get_loop(format, ptr + 2, h)
  ELSE <<At(format, ptr)>> \o get_loop(format, ptr + 1, h)

\* get(op, uh)
get(o, h) ==
  (IF o.format = NULL THEN <<>> ELSE get_loop(o.format, 0, h)) \o <<"\n">>

\* jsonString(stream, in, false)
RECURSIVE jsonChars(_)
jsonChars(in) ==
  IF in = <<>> THEN <<>>
  ELSE (CASE in[1] = "\\" -> <<"\\", "\\">>
          [] in[1] = "\"" -> <<"\\", "\"">>
          [] in[1] = "\f" -> <<"\\", "f">>
          [] in[1] = "\n" -> <<"\\", "n">>
          [] in[1] = "\r" -> <<"\\", "r">>
          [] in[1] = "\t" -> <<"\\", "t">>
          [] OTHER -> <<in[1]>>)
       \o jsonChars(Tail(in))

jsonString(in) == <<"\"">> \o jsonChars(in) \o <<"\"">>

\* json(): the loop over variables[], i the 0-based index
RECURSIVE json_loop(_, _)
json_loop(h, i) ==
  IF i >= NUM_COMPONENTS THEN <<>>
  ELSE LET got == curl_url_get(h, variables[i + 1].part, i # 0, FALSE, TRUE)
       IN (IF got.rc = "CURLUE_OK"
           THEN (IF i # 0 THEN <<",", "\n">> ELSE <<>>)
                \o <<" ", " ", " ", " ", "\"">> \o variables[i + 1].name
                \o <<"\"", ":", " ">> \o jsonString(got.s)
           ELSE <<>>)
          \o json_loop(h, i + 1)

\* json(o, uh)
json(o, h) ==
  (IF o.urls # 0 THEN <<",", "\n">> ELSE <<>>) \o <<" ", " ", "{", "\n">>
  \o json_loop(h, 0) \o <<"\n", " ", " ", "}">>

\* trim() taking a final `*` as part of the name
trim_one_nopattern(qp, instr) ==
  IF ~strncasecmp0(instr, 0, <<"q","u","e","r","y">>, 0, 5)
  THEN [qpairs |-> qp, exit |-> ERROR_TRIM]
  ELSE
    LET eq == strchr(instr, 0, "=")
        ptr == eq + 1
        inslen == Len(instr) - ptr
        strip(pair) ==
          LET sep == strchr(pair, 0, "=")
              qlen == IF sep >= 0 THEN sep ELSE Len(pair)
          IN inslen = qlen /\ strncasecmp0(pair, 0, instr, ptr, inslen)
    IN IF eq > 0
       THEN [qpairs |-> [i \in 1..Len(qp) |-> IF strip(qp[i]) THEN <<>> ELSE qp[i]],
             exit |-> 0]
       ELSE [qpairs |-> qp, exit |-> 0]

\* trim(): the body of the loop over o->trim_list for one directive instr
trim_one(qp, instr) ==
  IF ~strncasecmp0(instr, 0, <<"q","u","e","r","y">>, 0, 5)
  THEN [qpairs |-> qp, exit |-> ERROR_TRIM]
  ELSE
    LET eq == strchr(instr, 0, "=")
        ptr == eq + 1
        len0 == Len(instr) - ptr
        pattern == At(instr, ptr + len0 - 1) = "*"
        inslen == IF pattern THEN len0 - 1 ELSE len0
        strip(pair) ==
          LET sep == strchr(pair, 0, "=")
              qlen == IF sep >= 0 THEN sep ELSE Len(pair)
          IN \/ pattern /\ inslen <= qlen /\ strncasecmp0(pair, 0, instr, ptr, inslen)
             \/ ~pattern /\ inslen = qlen /\ strncasecmp0(pair, 0, instr, ptr, inslen)
    IN IF eq > 0
       THEN [qpairs |-> [i \in 1..Len(qp) |-> IF strip(qp[i]) THEN <<>> ELSE qp[i]],
             exit |-> 0]
       ELSE [qpairs |-> qp, exit |-> 0]

\* trim(o): every directive of the list in turn, until one is fatal
RECURSIVE trim_loop(_, _)
trim_loop(qp, list) ==
  IF list = <<>> THEN [qpairs |-> qp, exit |-> 0]
  ELSE LET r == trim_one(qp, list[1])
       IN IF r.exit # 0 THEN r ELSE trim_loop(r.qpairs, Tail(list))

trim(o, qp) == trim_loop(qp, o.trim_list)

\* addqpair with the test nqpairs <= MAX_QPAIRS
addqpair_offbyone(qp, pair) ==
  IF Len(qp) <= MAX_QPAIRS
  THEN [qpairs |-> Append(qp, pair), warned |-> FALSE]
  ELSE [qpairs |-> qp, warned |-> TRUE]

\* addqpair(pair, len): the store after the call, and whether it warned
addqpair(qp, pair) ==
  IF Len(qp) < MAX_QPAIRS
  THEN [qpairs |-> Append(qp, pair), warned |-> FALSE]
  ELSE [qpairs |-> qp, warned |-> TRUE]

\* the query-append loop of singleurl
RECURSIVE append_query_loop(_, _)
append_query_loop(r, list) ==
  IF list = <<>> THEN r
  ELSE LET a == addqpair(r.qpairs, list[1])
       IN append_query_loop(
            [qpairs |-> a.qpairs,
             warnings |-> r.warnings + (IF a.warned THEN 1 ELSE 0)],
            Tail(list))

\* the loop test of extractqpairs, while(*p)
extract_more_always(qs, ptr) == TRUE

extract_more(qs, ptr) == At(qs, ptr) # NUL

\* one turn of the loop of extractqpairs on the query qs; st holds p (an offset in
\* qs), the store, the pairs handed to addqpair, the number of warnings, and
\* whether the loop has ended
extract_turn(qs, st) ==
  IF st.done \/ ~extract_more(qs, st.p) THEN [st EXCEPT !.done = TRUE]
  ELSE LET amp == strchr(qs, st.p, "&")
           len == IF amp < 0 THEN Len(qs) - st.p ELSE amp - st.p
           pair == SubSeq(qs, st.p + 1, st.p + len)
           a == addqpair(st.qpairs, pair)
       IN [p |-> IF amp >= 0 THEN amp + 1 ELSE st.p,
           qpairs |-> a.qpairs,
           offered |-> Append(st.offered, pair),
           warnings |-> st.warnings + (IF a.warned THEN 1 ELSE 0),
           done |-> amp < 0]

\* n turns of the loop, taken in order: one after the other in short runs, longer
\* runs as their first half then the rest, which keeps the evaluation shallow
RECURSIVE extract_loop(_, _, _)
extract_loop(qs, st, n) ==
  IF n = 0 \/ st.done THEN st
  ELSE IF n <= 16 THEN extract_loop(qs, extract_turn(qs, st), n - 1)
  ELSE extract_loop(qs, extract_loop(qs, st, n \div 2), n - (n \div 2))

\* extractqpairs(uh): every turn advances p, so the loop ends within Len(q) + 1
\* turns
extractqpairs(h) ==
  LET got == curl_url_get(h, "query", FALSE, FALSE, FALSE)
      st0 == [p |-> 0, qpairs |-> <<>>, offered |-> <<>>, warnings |-> 0,
              done |-> FALSE]
  IN IF got.rc = "CURLUE_OK" THEN extract_loop(got.s, st0, Len(got.s) + 1) ELSE st0

\* qpair2query's loop body joining with `&` whatever the pair
qpair2query_step_always(nq0, pair) ==
  (IF nq0 # NULL THEN nq0 ELSE <<>>)
  \o (IF nq0 # NULL THEN <<"&">> ELSE <<>>)
  \o pair

\* the body of qpair2query's loop: the new nq
qpair2query_step(nq0, pair) ==
  (IF nq0 # NULL THEN nq0 ELSE <<>>)
  \o (IF nq0 # NULL /\ nq0 # <<>> /\ pair # <<>> THEN <<"&">> ELSE <<>>)
  \o pair

\* n turns of for(i=0; i<nqpairs; i++), taken in order as in extract_loop
RECURSIVE qpair2query_loop(_, _, _)
qpair2query_loop(qp, st, n) ==
  IF n = 0 \/ ~(st.i < Len(qp)) THEN st
  ELSE IF n <= 16
  THEN qpair2query_loop(qp, [nq |-> qpair2query_step(st.nq, qp[st.i + 1]),
                             i |-> st.i + 1], n - 1)
  ELSE qpair2query_loop(qp, qpair2query_loop(qp, st, n \div 2), n - (n \div 2))

\* qpair2query(uh): the handle after it
qpair2query(h, qp) ==
  LET nq == qpair2query_loop(qp, [nq |-> NULL, i |-> 0], Len(qp)).nq
  IN IF nq # NULL THEN curl_url_set(h, "query", nq) ELSE h

-----------------------------------------------------------------------------
(* main: the command line *)

MaxArgs == 4     \* command-line flags and URLs consumed by one run

Message(kind, text) == [kind |-> kind, text |-> text]

NoFile == [open |-> FALSE, lines |-> <<>>]

Init ==
  /\ pc = "args"
  /\ nargs = 0
  /\ chain = <<option0>>
  /\ url_list = <<>>
  /\ url = NoFile
  /\ node = 0
  /\ opt = 0
  /\ cur = NOURL
  /\ uh = NoParts
  /\ qpairs = <<>>
  /\ out = <<>>
  /\ err = <<>>
  /\ exit_code = 0
  /\ calls = <<>>
  /\ iters = <<>>
  /\ offered = <<>>

\* one turn of main's argument loop on a flag that getarg handles
GetArg(flag, arg) ==
  /\ pc = "args"
  /\ nargs < MaxArgs
  /\ LET r == getarg(chain, flag, arg)
     IN /\ chain' = r.chain
        /\ pc' = IF r.exit # 0 THEN "exit" ELSE "args"
        /\ exit_code' = r.exit
        /\ err' = IF r.exit # 0 THEN Append(err, Message("error", r.msg)) ELSE err
        /\ iters' = IF flag = "--iterate" /\ Len(chain) = 1 /\ r.exit = 0
                    THEN Append(iters, arg) ELSE iters
  /\ nargs' = nargs + 1
  /\ UNCHANGED <<url_list, url, node, opt, cur, uh, qpairs, out,
                 calls, offered>>

\* a word that is no flag (or the argument of --url): urladd
UrlArg(u) ==
  /\ pc = "args"
  /\ nargs < MaxArgs
  /\ url_list' = Append(url_list, u)
  /\ nargs' = nargs + 1
  /\ UNCHANGED <<pc, chain, url, node, opt, cur, uh, qpairs, out,
                 err, exit_code, calls, iters, offered>>

\* --url-file: urlfile(); lines is what fgets will read from the file or stdin
UrlFile(lines) ==
  /\ pc = "args"
  /\ nargs < MaxArgs
  /\ nargs' = nargs + 1
  /\ IF url.open
     THEN /\ pc' = "exit"
          /\ exit_code' = ERROR_FLAG
          /\ err' = Append(err, Message("error", "only one --url-file is supported"))
          /\ url' = url
     ELSE /\ url' = [open |-> TRUE, lines |-> lines]
          /\ UNCHANGED <<pc, exit_code, err>>
  /\ UNCHANGED <<chain, url_list, node, opt, cur, uh, qpairs, out,
                 calls, iters, offered>>

-----------------------------------------------------------------------------
(* main: the URL loops *)

\* the end of the argument loop: the opening bracket of --json, then the loops
StartRun ==
  /\ pc = "args"
  /\ out' = IF chain[1].jsonout THEN out \o <<"[", "\n">> ELSE out
  /\ node' = 0
  /\ pc' = "fetch"
  /\ UNCHANGED <<nargs, chain, url_list, url, opt, cur, uh, qpairs,
                 err, exit_code, calls, iters, offered>>

\* a line of the file is used when it ends in a newline and is not empty
Usable(line) == line.eol /\ line.url.verdict # "empty"

\* the head of the outer loop: fgets on the file, or the do-while over o.url_list
\* (which runs once with a null url when the list is empty)
Fetch ==
  /\ pc = "fetch"
  /\ IF url.open
     THEN IF node < Len(url.lines)
          THEN /\ node' = node + 1
               /\ IF Usable(url.lines[node + 1])
                  THEN cur' = url.lines[node + 1].url /\ opt' = 1 /\ pc' = "variant"
                  ELSE UNCHANGED <<cur, opt, pc>>
          ELSE pc' = "cleanup" /\ UNCHANGED <<node, cur, opt>>
     ELSE IF node < Len(url_list) \/ (node = 0 /\ url_list = <<>>)
          THEN /\ node' = node + 1
               /\ cur' = IF url_list = <<>> THEN NOURL ELSE url_list[node + 1]
               /\ opt' = 1
               /\ pc' = "variant"
          ELSE pc' = "cleanup" /\ UNCHANGED <<node, cur, opt>>
  /\ out' = IF pc' = "cleanup" /\ chain[1].jsonout
            THEN out \o <<"\n", "]", "\n">> ELSE out
  /\ UNCHANGED <<nargs, chain, url_list, url, uh, qpairs, err,
                 exit_code, calls, iters, offered>>

\* the test of the loop over the chain: the file loop tests opt->iterate, the
\* argument loops test opt
VariantTest ==
  IF url.open THEN opt < Len(chain) ELSE opt <= Len(chain)

\* the head of the inner loop
Variant ==
  /\ pc = "variant"
  /\ pc' = IF VariantTest THEN "singleurl" ELSE "fetch"
  /\ UNCHANGED <<nargs, chain, url_list, url, node, opt, cur, uh, qpairs, out, err, exit_code, calls, iters, offered>>

\* the end of main: the five curl_slist_free_all, then optcleanup(o.iterate),
\* which reads o->iterate through a null pointer when the chain has one element
Cleanup ==
  /\ pc = "cleanup"
  /\ \E survives \in BOOLEAN :
       pc' = IF Len(chain) > 1 \/ survives THEN "done" ELSE "segv"
  /\ UNCHANGED <<nargs, chain, url_list, url, node, opt, cur, uh, qpairs, out, err, exit_code, calls, iters, offered>>

-----------------------------------------------------------------------------
(* singleurl(o, url), with o == chain[opt] and url == cur *)

\* return to main: opt = opt->iterate
ReturnToMain == pc' = "variant" /\ opt' = opt + 1

\* errorf(exit_code, ...)
Exit(code, text) ==
  /\ pc' = "exit"
  /\ exit_code' = code
  /\ err' = Append(err, Message("error", text))

\* badurl_fatal with the verify flag not consulted
badurl_fatal_never(o) == FALSE

\* "if(o->verify) errorf(ERROR_BADURL, ...)": whether a rejected URL is fatal
badurl_fatal(o) == o.verify

\* curl_url(), the parse of url and the redirect
Parse ==
  /\ pc = "singleurl"
  /\ calls' = Append(calls, <<cur, opt>>)
  /\ offered' = <<>>
  /\ LET o == chain[opt]
         rc == curl_url_set_url(curl_url, cur, o.accept_space)
     IN IF cur # NOURL /\ rc.rc # "CURLUE_OK"
        THEN /\ uh' = rc.uh
             /\ IF badurl_fatal(o)
                THEN Exit(ERROR_BADURL, "bad url") /\ opt' = opt
                ELSE /\ err' = Append(err, Message("note", "bad url"))
                     /\ ReturnToMain
                     /\ exit_code' = exit_code
        ELSE /\ uh' = IF cur = NOURL THEN curl_url
                      ELSE IF o.redirect # NOURL
                      THEN curl_url_set_url(rc.uh, o.redirect, FALSE).uh
                      ELSE rc.uh
             /\ pc' = "set"
             /\ UNCHANGED <<opt, err, exit_code>>
  /\ UNCHANGED <<nargs, chain, url_list, url, node, cur, qpairs, out,
                 iters>>

\* set(uh, o), then the path-append loop
Set ==
  /\ pc = "set"
  /\ LET r == set(uh, chain, opt)
     IN IF r.exit # 0
        THEN Exit(r.exit, r.msg) /\ uh' = r.uh
        ELSE /\ uh' = append_path_loop(r.uh, chain[opt].append_path)
             /\ pc' = "extract"
             /\ UNCHANGED <<err, exit_code>>
  /\ UNCHANGED <<nargs, chain, url_list, url, node, opt, cur, qpairs,
                 out, calls, iters, offered>>

RECURSIVE Warnings(_)
Warnings(n) ==
  IF n = 0 THEN <<>>
  ELSE <<Message("note", "too many query pairs")>> \o Warnings(n - 1)

\* extractqpairs(uh)
Extract ==
  /\ pc = "extract"
  /\ LET r == extractqpairs(uh)
     IN /\ qpairs' = r.qpairs
        /\ offered' = r.offered
        /\ err' = err \o Warnings(r.warnings)
  /\ pc' = "qappend"
  /\ UNCHANGED <<nargs, chain, url_list, url, node, opt, cur, uh, out, exit_code,
                 calls, iters>>

\* the query-append loop
AppendQuery ==
  /\ pc = "qappend"
  /\ LET r == append_query_loop([qpairs |-> qpairs, warnings |-> 0],
                                chain[opt].append_query)
     IN /\ qpairs' = r.qpairs
        /\ err' = err \o Warnings(r.warnings)
  /\ offered' = offered \o chain[opt].append_query
  /\ pc' = "trim"
  /\ UNCHANGED <<nargs, chain, url_list, url, node, opt, cur, uh, out,
                 exit_code, calls, iters>>

\* trim(o)
Trim ==
  /\ pc = "trim"
  /\ LET r == trim(chain[opt], qpairs)
     IN /\ qpairs' = r.qpairs
        /\ IF r.exit # 0
           THEN Exit(r.exit, "Unsupported trim component")
           ELSE pc' = "rebuild" /\ UNCHANGED <<err, exit_code>>
  /\ UNCHANGED <<nargs, chain, url_list, url, node, opt, cur, uh, out, calls,
                 iters, offered>>

\* qpair2query(uh)
Rebuild ==
  /\ pc = "rebuild"
  /\ uh' = qpair2query(uh, qpairs)
  /\ pc' = "render"
  /\ UNCHANGED <<nargs, chain, url_list, url, node, opt, cur, qpairs, out, err,
                 exit_code, calls, iters, offered>>

\* the output, freeqpairs(), o->urls++
Render ==
  /\ pc = "render"
  /\ LET o == chain[opt]
         full == curl_url_get(uh, "url", FALSE, TRUE, FALSE)
     IN IF ~o.jsonout /\ o.format = NULL /\ full.rc # "CURLUE_OK"
        THEN /\ Exit(ERROR_URL, "not enough input for a URL")
             /\ UNCHANGED <<out, qpairs, chain, opt>>
        ELSE /\ out' = out \o (IF o.jsonout THEN json(o, uh)
                               ELSE IF o.format # NULL THEN get(o, uh)
                               ELSE full.s \o <<"\n">>)
             /\ qpairs' = <<>>
             /\ chain' = [chain EXCEPT ![opt].urls = @ + 1]
             /\ ReturnToMain
             /\ UNCHANGED <<err, exit_code>>
  /\ UNCHANGED <<nargs, url_list, url, node, cur, uh, calls, iters,
                 offered>>

\* the steps of a run that do not read the command line
Run ==
  \/ StartRun \/ Fetch \/ Variant \/ Cleanup
  \/ Parse \/ Set \/ Extract \/ AppendQuery \/ Trim \/ Rebuild \/ Render

-----------------------------------------------------------------------------
(* The whole program on a small command-line vocabulary *)

Http == <<"h","t","t","p">>

\* http://h/
UrlPlain ==
  [verdict |-> "ok",
   parts |-> [NoParts EXCEPT !.scheme = Http, !.host = <<"h">>, !.path = <<"/">>]]

\* http://g/?a=1&b
UrlQuery ==
  [verdict |-> "ok",
   parts |-> [NoParts EXCEPT !.scheme = Http, !.host = <<"g">>, !.path = <<"/">>,
                             !.query = <<"a","=","1","&","b">>]]

\* a text the engine rejects
UrlBad == [verdict |-> "bad", parts |-> NoParts]

\* an empty line of a file
EmptyText == [verdict |-> "empty", parts |-> NoParts]

Line(u) == [url |-> u, eol |-> TRUE]

MainUrls == {UrlPlain, UrlQuery, UrlBad}
MainFiles == { <<Line(UrlPlain)>>, <<Line(UrlBad), Line(EmptyText), Line(UrlQuery)>> }
MainIterArgs == { <<"h","o","s","t","s","=","a">>,
                  <<"h","o","s","t","s","=","a"," ","b">> }
MainSwitches == {"--verify", "--json"}
MainSets == { <<"h","o","s","t","=","z">> }
MainRedirects == {UrlPlain, UrlBad}
MainFormats == { <<"{","h","o","s","t","}">> }

Next ==
  \/ \E u \in MainUrls : UrlArg(u)
  \/ \E f \in MainFiles : UrlFile(f)
  \/ \E a \in MainIterArgs : GetArg("--iterate", a)
  \/ \E f \in MainSwitches : GetArg(f, NULL)
  \/ \E a \in MainSets : GetArg("--set", a)
  \/ \E u \in MainRedirects : GetArg("--redirect", u)
  \/ \E a \in MainFormats : GetArg("--get", a)
  \/ Run

Spec == Init /\ [][Next]_vars

-----------------------------------------------------------------------------
(* Claims about main's loops and the parse step, checked under Spec *)

\* main has left its URL loops
LoopsDone == pc \in {"cleanup", "done", "segv"}

\* the URLs the run was given, in the order supplied: the usable lines of the
\* file when --url-file was given, the arguments otherwise
RECURSIVE UsableUrls(_)
UsableUrls(lines) ==
  IF lines = <<>> THEN <<>>
  ELSE (IF Usable(lines[1]) THEN <<lines[1].url>> ELSE <<>>) \o UsableUrls(Tail(lines))

Supplied == IF url.open THEN UsableUrls(url.lines) ELSE url_list

\* one singleurl call per variant 1..n for each URL of us, URL by URL
RECURSIVE ExpectedCalls(_, _)
ExpectedCalls(us, n) ==
  IF us = <<>> THEN <<>>
  ELSE [k \in 1..n |-> <<us[1], k>>] \o ExpectedCalls(Tail(us), n)

IsUrlCall(c) == c[1] # NOURL

\* C1: when main has left its URL loops, singleurl has been called exactly once
\* for every supplied URL and every variant of the chain, URL by URL in the order
\* supplied and, for each URL, variant by variant in chain order.
C1_EveryVariantOnceInOrder ==
  LoopsDone => SelectSeq(calls, IsUrlCall) = ExpectedCalls(Supplied, Len(chain))

\* the same for URLs given as arguments only (the do-while loop of main)
C1_ArgumentLoopInOrder ==
  (LoopsDone /\ ~url.open)
    => SelectSeq(calls, IsUrlCall) = ExpectedCalls(Supplied, Len(chain))

\* singleurl is about to parse a URL text that the engine rejects
ParseRejects ==
  pc = "singleurl" /\ cur # NOURL /\ ~ParseOk(cur, chain[opt].accept_space)

BadUrlNote == Message("note", "bad url")

\* C8: a step of singleurl on a URL the engine rejects, taken with the variant's
\* verify flag set, ends the process with exit code ERROR_BADURL without writing
\* to stdout, and no step follows an exit; taken with verify unset it appends one
\* warning to stderr, writes nothing to stdout, leaves every variant's URL counter
\* as it was and returns to main's loop at the next variant.
C8_ParseFailure ==
  [][ /\ ParseRejects =>
           IF chain[opt].verify
           THEN pc' = "exit" /\ exit_code' = ERROR_BADURL /\ out' = out
                /\ chain' = chain
           ELSE /\ err' = Append(err, BadUrlNote)
                /\ out' = out
                /\ chain' = chain
                /\ exit_code' = 0
                /\ pc' = "variant" /\ opt' = opt + 1 /\ node' = node
      /\ pc = "exit" => calls' = calls /\ out' = out /\ pc' = "exit" ]_vars

\* a rejected URL was skipped with a warning and a later pass has been rendered
C8_Witness ==
  /\ pc = "variant"
  /\ Len(calls) >= 2
  /\ ~ParseOk(calls[1][1], chain[calls[1][2]].accept_space)
  /\ err = <<BadUrlNote>>
  /\ \E k \in 1..Len(chain) : chain[k].urls > 0
  /\ out # <<>>

\* C9: iterate() runs at most once in a process: once an --iterate directive has
\* been accepted, no second one is.
C9_IterateAtMostOnce == Len(iters) <= 1

\* singleurl is about to parse a URL the engine accepts, with a redirect URL
\* configured that the engine rejects
RedirectRejects ==
  /\ pc = "singleurl" /\ cur # NOURL /\ ParseOk(cur, chain[opt].accept_space)
  /\ chain[opt].redirect # NOURL /\ ~ParseOk(chain[opt].redirect, FALSE)

\* C10: a rejected redirect URL is handled as a rejected URL is: the step exits
\* with ERROR_BADURL when verify is set, and otherwise warns and returns to main
\* without going on to set() and the output.
C10_RedirectFailure ==
  [][ RedirectRejects =>
        IF chain[opt].verify
        THEN pc' = "exit" /\ exit_code' = ERROR_BADURL
        ELSE pc' = "variant" /\ err' = Append(err, BadUrlNote) /\ out' = out ]_vars

-----------------------------------------------------------------------------
(* The program on --iterate directives of up to MaxTokens tokens *)

MaxTokens == 3     \* tokens in one --iterate directive

\* the directive names and, for each, the tokens tried (values the engine takes
\* for that component)
IterPrefixes == { <<"h","o","s","t","s","=">>, <<"p","o","r","t","s","=">>,
                  <<"s","c","h","e","m","e","s","=">> }

IterTokens(pre) ==
  CASE pre[1] = "h" -> { <<"a">>, <<"b","c">> }
    [] pre[1] = "p" -> { <<"8">>, <<"9","0">> }
    [] pre[1] = "s" -> { <<"f","t","p">>, <<"w","s">> }

RECURSIVE JoinWith(_, _)
JoinWith(ts, sep) ==
  IF ts = <<>> THEN <<>>
  ELSE IF Len(ts) = 1 THEN ts[1]
  ELSE ts[1] \o sep \o JoinWith(Tail(ts), sep)

\* every prefix followed by 1..MaxTokens tokens separated by single spaces
IterArgs ==
  UNION { { pre \o JoinWith(ts, <<" ">>) :
              ts \in UNION { [1..n -> IterTokens(pre)] : n \in 1..MaxTokens } } :
          pre \in IterPrefixes }

IterFormats == { <<"{","h","o","s","t","}">>, <<"{","p","o","r","t","}">>,
                 <<"{","s","c","h","e","m","e","}">> }

IterSets == { <<"p","a","t","h","=","/","p">> }

\* the directives tried as a second --iterate
IterAgain == { <<"h","o","s","t","s","=","b","c">>,
               <<"p","o","r","t","s","=","8"," ","9","0">> }

NextIter ==
  \/ \E a \in IterArgs : iters = <<>> /\ GetArg("--iterate", a)
  \/ \E a \in IterAgain : iters # <<>> /\ GetArg("--iterate", a)
  \/ \E a \in IterFormats : chain[1].format = NULL /\ GetArg("--get", a)
  \/ \E a \in IterSets : chain[1].set_list = <<>> /\ GetArg("--set", a)
  \/ url_list = <<>> /\ UrlArg(UrlQuery)
  \/ Run

SpecIter == Init /\ [][NextIter]_vars

\* the pieces of s between the occurrences of sep, empty pieces included
RECURSIVE Split(_, _)
Split(s, sep) ==
  IF \E i \in 1..Len(s) : s[i] = sep
  THEN LET i == CHOOSE i \in 1..Len(s) : s[i] = sep /\ \A j \in 1..(i - 1) : s[j] # sep
       IN <<SubSeq(s, 1, i - 1)>> \o Split(SubSeq(s, i + 1, Len(s)), sep)
  ELSE <<s>>

\* the component an accepted directive iterates and the tokens of its remainder
IterPart(arg) ==
  CASE arg[1] = "h" -> "host" [] arg[1] = "p" -> "port" [] arg[1] = "s" -> "scheme"

IterName(arg) == SubSeq(arg, 1, strchr(arg, 0, "="))

IterToks(arg) == Split(From(arg, strchr(arg, 0, "=") + 1), " ")

\* the chain has one variant per token of arg, in token order, and set() on an
\* empty handle with the k-th variant's set-list leaves the component at token k
ChainMatches(ch, arg) ==
  LET toks == IterToks(arg)
      part == IterPart(arg)
  IN /\ Len(ch) = Len(toks)
     /\ \A k \in 1..Len(ch) :
          LET r == set(curl_url, ch, k)
          IN r.exit = 0 /\ r.uh[part] = toks[k]

\* the expansion half of C2: after the last accepted directive (no later --set
\* names its component), the chain matches its tokens
C2_ChainAfterExpansion ==
  (pc = "args" /\ iters # <<>>) => ChainMatches(chain, iters[Len(iters)])

RECURSIVE LinesOf(_)
LinesOf(ts) == IF ts = <<>> THEN <<>> ELSE ts[1] \o <<"\n">> \o LinesOf(Tail(ts))

\* the format {component} for the component a directive iterates
FormatFor(arg) == <<"{">> \o SubSeq(IterName(arg), 1, Len(IterName(arg)) - 1) \o <<"}">>

\* C2: after an --iterate directive of n non-empty tokens separated by single
\* spaces the chain has n variants in token order whose set-lists leave the
\* iterated component at the k-th token; and a run with that one directive, the
\* format {component} and one URL writes the tokens, one per line, in order.
C2_IterateOrdering ==
  /\ C2_ChainAfterExpansion
  /\ ( /\ LoopsDone
       /\ Len(iters) = 1
       /\ Len(Supplied) = 1
       /\ ParseOk(Supplied[1], FALSE)
       /\ chain[1].format = FormatFor(iters[1]) )
     => out = LinesOf(IterToks(iters[1]))

\* the rendering half, for a run whose --get came before its --iterate
C2_RenderWhenFormatFirst ==
  ( /\ LoopsDone
    /\ Len(iters) = 1
    /\ Len(Supplied) = 1
    /\ ParseOk(Supplied[1], FALSE)
    /\ \A k \in 1..Len(chain) : chain[k].format = FormatFor(iters[1]) )
  => out = LinesOf(IterToks(iters[1]))

-----------------------------------------------------------------------------
(* The program on --get formats of up to MaxFmtLen pieces *)

MaxFmtLen == 3     \* pieces in one format string

FmtPieces == { <<"{","h","o","s","t","}">>, <<"{">>, <<"{","{">>, <<"}">>, <<"a">>,
               <<"\\","n">> }

RECURSIVE Concat(_)
Concat(ts) == IF ts = <<>> THEN <<>> ELSE ts[1] \o Concat(Tail(ts))

Formats == { Concat(ts) : ts \in UNION { [1..n -> FmtPieces] : n \in 1..MaxFmtLen } }

NextFmt ==
  \/ \E f \in Formats : chain[1].format = NULL /\ GetArg("--get", f)
  \/ url_list = <<>> /\ UrlArg(UrlQuery)
  \/ Run

SpecFmt == Init /\ [][NextFmt]_vars

\* the offsets of f holding a `{` that starts a variable (an even number of `{`
\* stands immediately before it, no backslash before it), is not followed by
\* another `{`, and has no later `}`
Unterminated(f) ==
  { h \in 0..(Len(f) - 1) :
      /\ At(f, h) = "{"
      /\ At(f, h + 1) # "{"
      /\ strchr(f, h, "}") < 0
      /\ \A k \in 0..(h - 1) : At(f, k) # "\\"
      /\ \E n \in 0..h :
           /\ n % 2 = 0
           /\ \A k \in (h - n)..(h - 1) : At(f, k) = "{"
           /\ (h - n = 0 \/ At(f, h - n - 1) # "{") }

\* C3: when the format of a run on one URL has an unterminated `{`, the output is
\* the rendering of the format up to that `{` followed by the final newline, and
\* nothing of the format after the `{` is emitted.
C3_UnterminatedBraceStops ==
  ( /\ LoopsDone
    /\ Len(calls) = 1
    /\ chain[1].format # NULL
    /\ Unterminated(chain[1].format) # {} )
  => LET f == chain[1].format
         h == CHOOSE h \in Unterminated(f) : \A g \in Unterminated(f) : h <= g
     IN out = get_loop(SubSeq(f, 1, h), 0, uh) \o <<"\n">>

-----------------------------------------------------------------------------
(* The program on query strings of up to MaxQLen characters, trims and appends *)

MaxQLen == 2      \* characters of an enumerated query string
MaxTrims == 2     \* --trim directives of one run

QueryChars == { "a", "A", "=", "&" }

\* aA=1&a&&b=  and  A=a&&b&
QueryExtras == { <<"a","A","=","1","&","a","&","&","b","=">>,
                 <<"A","=","a","&","&","b","&">> }

Queries == UNION { [1..n -> QueryChars] : n \in 1..MaxQLen } \cup QueryExtras

\* a&a&...&a with MAX_QPAIRS + 1 pairs
LongQuery == [i \in 1..(2 * MAX_QPAIRS + 1) |-> IF i % 2 = 1 THEN "a" ELSE "&"]

\* http://g/?qs
QueryUrl(qs) ==
  [verdict |-> "ok",
   parts |-> [NoParts EXCEPT !.scheme = Http, !.host = <<"g">>, !.path = <<"/">>,
                             !.query = qs]]

TrimArgs == { <<"q","u","e","r","y","=","a">>, <<"q","u","e","r","y","=","A","*">>,
              <<"q","u","e","r","y","=","*">>, <<"q","u","e","r","y","=">>,
              <<"p","a","t","h","=","a">> }

NextQuery ==
  \/ \E t \in TrimArgs :
       /\ url_list = <<>> /\ iters = <<>> /\ chain[1].append_query = <<>>
       /\ Len(chain[1].trim_list) < MaxTrims
       /\ GetArg("--trim", t)
  \/ /\ url_list = <<>> /\ chain[1].trim_list = <<>> /\ chain[1].append_query = <<>>
     /\ GetArg("--append", <<"q","u","e","r","y","=","c">>)
  \/ /\ url_list = <<>> /\ chain[1].trim_list = <<>> /\ iters = <<>>
     /\ GetArg("--iterate", <<"h","o","s","t","s","=","a"," ","b">>)
  \/ \E qs \in Queries : url_list = <<>> /\ UrlArg(QueryUrl(qs))
  \/ url_list = <<>> /\ chain[1].trim_list = <<>> /\ UrlArg(QueryUrl(LongQuery))
  \/ Run

SpecQuery == Init /\ [][NextQuery]_vars

\* the number of `&` in s
AmpCount(s) == Cardinality({ i \in 1..Len(s) : s[i] = "&" })

\* the key of a pair: the text before its first `=`, the whole pair without one
Key(pair) ==
  LET e == strchr(pair, 0, "=") IN IF e < 0 THEN pair ELSE SubSeq(pair, 1, e)

LowerSeq(s) == [i \in 1..Len(s) |-> Lower(s[i])]

\* the P of a directive component=P
Pattern(d) == From(d, strchr(d, 0, "=") + 1)

\* key matches P: by prefix when P ends in `*`, in full otherwise, letters
\* compared without case
Matches(key, P) ==
  IF P # <<>> /\ P[Len(P)] = "*"
  THEN /\ Len(key) >= Len(P) - 1
       /\ LowerSeq(SubSeq(key, 1, Len(P) - 1)) = LowerSeq(SubSeq(P, 1, Len(P) - 1))
  ELSE LowerSeq(key) = LowerSeq(P)

Tombstone(qp, P) ==
  [i \in 1..Len(qp) |-> IF Matches(Key(qp[i]), P) THEN <<>> ELSE qp[i]]

RECURSIVE TombstoneAll(_, _)
TombstoneAll(qp, ds) ==
  IF ds = <<>> THEN qp ELSE TombstoneAll(Tombstone(qp, Pattern(ds[1])), Tail(ds))

\* the query of the URL of the current pass as it was parsed, and the directives
\* of the variant of the current pass
q0 == cur.parts.query

Trims == chain[opt].trim_list

\* a pass over a URL with a non-empty query and no query-append directive has just
\* rebuilt the query
Rebuilt ==
  /\ pc = "render"
  /\ q0 # NULL /\ q0 # <<>>
  /\ chain[opt].append_query = <<>>

\* q has only non-empty pairs
OnlyNonEmpty(qs) ==
  /\ qs[1] # "&" /\ qs[Len(qs)] # "&"
  /\ \A i \in 1..(Len(qs) - 1) : ~(qs[i] = "&" /\ qs[i + 1] = "&")

\* the pairs of q that are non-empty and that no directive tombstones, joined
Kept(qs, ds) ==
  JoinWith(SelectSeq(Split(qs, "&"),
                     LAMBDA pr : /\ pr # <<>>
                                 /\ \A k \in 1..Len(ds) : ~Matches(Key(pr), Pattern(ds[k]))),
           <<"&">>)

\* C4 as stated, for any query string: with no trims and only non-empty pairs the
\* rebuilt query is q itself, and in general it is the non-empty, non-tombstoned
\* pairs of q in order joined by single `&`.
C4_ExtractTrimRebuild ==
  /\ (Rebuilt /\ Trims = <<>> /\ OnlyNonEmpty(q0)) => uh.query = q0
  /\ Rebuilt => uh.query = Kept(q0, Trims)

\* C4 for a query string of at most MAX_QPAIRS `&`-delimited substrings: the
\* rebuilt query is the non-empty, non-tombstoned pairs of q in order joined by
\* single `&`, and it is q itself with no trims and only non-empty pairs.
C4_WithinCapacity ==
  (Rebuilt /\ AmpCount(q0) < MAX_QPAIRS)
  => /\ uh.query = Kept(q0, Trims)
     /\ (Trims = <<>> /\ OnlyNonEmpty(q0)) => uh.query = q0

C4_Witness ==
  /\ Rebuilt
  /\ Trims = << <<"q","u","e","r","y","=","a">> >>
  /\ q0 = <<"a","A","=","1","&","a","&","&","b","=">>
  /\ uh.query = <<"a","A","=","1","&","b","=">>

\* C5: the trim step on directives query=P replaces by the empty string exactly
\* the stored pairs whose key matches P (prefix match for P ending in `*`, full
\* match otherwise, without case), keeps every other pair and the pair count, and
\* a second application of a directive changes nothing.
C5_TrimMatching ==
  [][ (pc = "trim" /\ pc' = "rebuild")
      => /\ qpairs' = TombstoneAll(qpairs, Trims)
         /\ Len(qpairs') = Len(qpairs)
         /\ \A k \in 1..Len(Trims) :
              LET once == trim_one(qpairs, Trims[k]).qpairs
              IN /\ once = Tombstone(qpairs, Pattern(Trims[k]))
                 /\ trim_one(once, Trims[k]).qpairs = once ]_vars

C5_Witness ==
  /\ pc = "rebuild"
  /\ Trims = << <<"q","u","e","r","y","=","A","*">> >>
  /\ offered = << <<"a","A","=","1">>, <<"a">>, <<>>, <<"b","=">> >>
  /\ qpairs = << <<>>, <<>>, <<>>, <<"b","=">> >>

\* extract has just finished on a URL with a non-empty query of fewer than
\* MAX_QPAIRS `&`
Extracted ==
  /\ pc = "qappend"
  /\ q0 # NULL /\ q0 # <<>>
  /\ AmpCount(q0) < MAX_QPAIRS

\* C6 as stated: extract stores every `&`-delimited substring of the query, the
\* empty ones included, a trailing `&` giving a final empty pair, so the number of
\* stored pairs is the number of `&` plus one.
C6_OnePairPerSubstring ==
  Extracted => /\ qpairs = Split(q0, "&")
               /\ Len(qpairs) = AmpCount(q0) + 1

\* the `&`-delimited substrings of qs without the empty one after a trailing `&`
ExtractedPairs(qs) ==
  LET ps == Split(qs, "&")
  IN IF ps[Len(ps)] = <<>> THEN SubSeq(ps, 1, Len(ps) - 1) ELSE ps

\* C6 with the trailing `&` as the code treats it: extract stores every
\* `&`-delimited substring verbatim and in order, the empty ones between `&&`
\* included, but no pair for the empty substring after a trailing `&`.
C6_NoPairAfterTrailingAmp ==
  Extracted => /\ qpairs = ExtractedPairs(q0)
               /\ Len(qpairs) = AmpCount(q0) + (IF q0[Len(q0)] = "&" THEN 0 ELSE 1)

C6_Witness ==
  /\ Extracted
  /\ q0 = <<"A","=","a","&","&","b","&">>
  /\ qpairs = << <<"A","=","a">>, <<>>, <<"b">> >>

Min(a, b) == IF a < b THEN a ELSE b

\* the store never exceeds the capacity, is empty when a pass starts, and through
\* extract and the query appends holds the first MAX_QPAIRS pairs offered
StoreBounded ==
  /\ Len(qpairs) \in 0..MAX_QPAIRS
  /\ pc = "singleurl" => qpairs = <<>>
  /\ pc \in {"qappend", "trim"}
       => qpairs = SubSeq(offered, 1, Min(Len(offered), MAX_QPAIRS))

\* a step that offers pairs never exits and warns once per pair that found the
\* store full
OfferStep ==
  Len(offered') > Len(offered)
  => LET n == Len(offered') - Len(offered)
         room == MAX_QPAIRS - Len(qpairs)
     IN /\ pc' # "exit" /\ exit_code' = 0
        /\ err' = err \o Warnings(IF n > room THEN n - room ELSE 0)

\* C7: the number of stored pairs is always between 0 and MAX_QPAIRS; a pair
\* offered to a full store is not stored, gives a warning and no exit; the first
\* MAX_QPAIRS pairs are kept in order; the store is empty at the start of a pass.
C7_CapacityBound == []StoreBounded /\ [][OfferStep]_vars

C7_Witness ==
  /\ pc = "trim"
  /\ opt = 2
  /\ Len(offered) = MAX_QPAIRS + 2
  /\ Len(qpairs) = MAX_QPAIRS
  /\ Len(err) = 4

-----------------------------------------------------------------------------
(* Claims about the set-lists, the variants' settings, the JSON list and the end
   of main, checked under Spec *)

\* the component a set directive names: the text before its `=`, without the
\* `:` that may end it, letters without case
SetName(d) ==
  LET e == strchr(d, 0, "=")
      n == IF e > 0 /\ At(d, e - 1) = ":" THEN e - 1 ELSE e
  IN LowerSeq(SubSeq(d, 1, n))

\* two directives of the list name the same component
SetTwice(list) ==
  \E i, j \in 1..Len(list) : i < j /\ SetName(list[i]) = SetName(list[j])

\* C11: a pass whose variant's set-list names a component twice ends in set()
\* with the fatal set error "A component can only be set once per URL", and
\* writes nothing.
C11_SetOncePerPass ==
  [][ (pc = "set" /\ SetTwice(chain[opt].set_list))
      => /\ pc' = "exit"
         /\ exit_code' = ERROR_SET
         /\ err' = Append(err, Message("error", "A component can only be set once per URL"))
         /\ out' = out ]_vars

\* the settings of a variant other than its set-list
Settings(o) ==
  [format |-> o.format, jsonout |-> o.jsonout, redirect |-> o.redirect,
   verify |-> o.verify, accept_space |-> o.accept_space,
   trim_list |-> o.trim_list, append_path |-> o.append_path,
   append_query |-> o.append_query]

\* URL processing is about to begin: the argument loop is over and no URL has
\* been taken
ProcessingBegins == pc = "fetch" /\ node = 0 /\ calls = <<>>

\* C12: when URL processing begins every variant has the settings of the first
\* (format, JSON flag, redirect, verify, accept-space, trim, path-append and
\* query-append directives), wherever --iterate stood on the command line.
C12_VariantsShareSettings ==
  ProcessingBegins => \A k \in 1..Len(chain) : Settings(chain[k]) = Settings(chain[1])

\* one JSON object as json() writes it, without a separator before it
JsonObject(h) ==
  <<" ", " ", "{", "\n">> \o json_loop(h, 0) \o <<"\n", " ", " ", "}">>

\* an object has been written earlier in the run
ObjectWritten == \E k \in 1..Len(chain) : chain[k].urls > 0

\* C13: in a run whose variants are all in JSON mode, the first object written
\* has no comma before it and every later object is preceded by exactly one
\* comma separator.
C13_JsonCommaSeparated ==
  [][ (pc = "render" /\ pc' # "exit" /\ \A k \in 1..Len(chain) : chain[k].jsonout)
      => out' = out \o (IF ObjectWritten THEN <<",", "\n">> ELSE <<>>)
                    \o JsonObject(uh) ]_vars

\* C14: on a command line that raised no fatal error, the cleanup at the end of
\* main completes without following a null chain link and the process returns
\* status 0, with or without --iterate.
C14_CleanupCompletes ==
  [][ pc = "cleanup" => (pc' = "done" /\ exit_code' = 0) ]_vars

====
